---- MODULE Spec2Model ----
(***************************************************************************)
(* Model of grafana_dashboard_manager/commands/dashboard_upload.py:        *)
(* the upload run (folder resolution, folder creation, dashboard upload,   *)
(* home dashboard) and the dashlist rewrite it applies to every document.  *)
(***************************************************************************)
EXTENDS Integers, Sequences, FiniteSets, TLC

VARIABLES
    manifest,          \* source_dir / "folders.json": [present, data]
    home_dashboard,    \* source_dir / "home.json": [present, doc]
    tree,              \* the subdirectories of source_dir: directory name -> its files, in iterdir order
    remaining,         \* entries of source_dir the glob has not yielded yet
    folder,            \* the directory the outer loop is in ("" outside the inner loop)
    json_file,         \* index of the next file of `folder` to upload
    folder_info,       \* dict[str, Folder], the in-memory folder mapping
    dashboard_uid,     \* what create_home returned ("" before)
    calls,             \* the remote calls issued so far, in order
    remoteFolders,     \* the folders the remote service holds, in the order all_folders lists them
    remoteDashboards,  \* the dashboards the remote service holds
    remoteHome,        \* the home dashboard the service has been told to use ("" if none)
    pc,                \* where the run is
    raised,            \* the exception that ended the run ("" if none)
    rin,               \* rewrite harness: the input (a panel or a dashboard)
    rout               \* rewrite harness: the output

vars == <<manifest, home_dashboard, tree, remaining, folder, json_file, folder_info,
          dashboard_uid, calls, remoteFolders, remoteDashboards, remoteHome, pc, raised,
          rin, rout>>

runVars == <<manifest, home_dashboard, tree, remaining, folder, json_file,
             dashboard_uid, calls, remoteFolders, remoteDashboards, remoteHome, pc, raised>>

----------------------------------------------------------------------------
(* Bounds *)

MaxPanels == 2
MaxRows == 1
MaxFiles == 2

----------------------------------------------------------------------------
(* Data *)

Titles == {"A", "B"}

\* Folder(title, uid, id), models/folder.py as used here
Folder(title, uid, id) == [title |-> title, uid |-> uid, id |-> id]

\* the Folder a manifest or a live install holds for a title
KnownFolder(t) == IF t = "A" THEN Folder("A", "ua", 1) ELSE Folder("B", "ub", 2)

\* identifiers the service assigns to a folder created without a uid
NewUids == {"n1", "n2"}

ServiceId(uid) == CASE uid = "ua" -> 1 [] uid = "ub" -> 2 [] uid = "n1" -> 11 [] OTHER -> 12

HomeUids == {"h1", "h2"}

SeqsUpTo(S, n) == UNION {[1..k -> S] : k \in 0..n}

\* options of a panel: a dict that may or may not carry folderId and folderUID
PanelFolderIds == {0, 2, 99}
PanelFolderUids == {"", "ub", "zz"}

Options ==
    {[maxItems |-> 10]}
    \cup {[maxItems |-> 10, folderId |-> i] : i \in PanelFolderIds}
    \cup {[maxItems |-> 10, folderUID |-> u] : u \in PanelFolderUids}
    \cup {[maxItems |-> 10, folderId |-> i, folderUID |-> u] :
              i \in PanelFolderIds, u \in PanelFolderUids}

Panels == [type : {"dashlist", "graph"}, title : Titles, options : Options]

\* the panels dashboards are built from
DocPanels ==
    {[type |-> "dashlist", title |-> "B",
      options |-> [maxItems |-> 10, folderId |-> 99, folderUID |-> "zz"]],
     [type |-> "dashlist", title |-> "A",
      options |-> [maxItems |-> 10, folderUID |-> ""]],
     [type |-> "graph", title |-> "B",
      options |-> [maxItems |-> 10, folderId |-> 99, folderUID |-> "zz"]]}

PanelLists == SeqsUpTo(DocPanels, MaxPanels)

RowLists == SeqsUpTo([panels : PanelLists], MaxRows)

\* a dashboard document: a title, and "panels" and/or "rows" or neither
Dashboards ==
    {[title |-> "d"]}
    \cup {[title |-> "d", panels |-> ps] : ps \in PanelLists}
    \cup {[title |-> "d", rows |-> rs] : rs \in RowLists}
    \cup {[title |-> "d", panels |-> ps, rows |-> rs] : ps \in PanelLists, rs \in RowLists}

\* folder mappings the rewrite is exercised against
FolderChoices(t) == {KnownFolder(t), Folder(t, "n1", 11)}

FolderMaps == UNION {[S -> UNION {FolderChoices(t) : t \in S}] : S \in SUBSET Titles}

FolderInfos == {m \in FolderMaps : \A t \in DOMAIN m : m[t].title = t}

----------------------------------------------------------------------------
(* The dashlist rewrite *)

Has(d, key) == key \in DOMAIN d

\* `if x := d.get(key)`: the key is there and its value is truthy
Truthy(d, key) ==
    /\ Has(d, key)
    /\ d[key] # (IF key = "folderId" THEN 0 ELSE "")

\* mutant: the type test (lines 118-119) is lost
update_panel_any_type(panel, fi) ==
    IF ~ Has(fi, panel.title) THEN panel
    ELSE LET f == fi[panel.title]
             o0 == panel.options
             o1 == IF Truthy(o0, "folderId") /\ o0.folderId # f.id
                   THEN [o0 EXCEPT !.folderId = f.id] ELSE o0
             o2 == IF Truthy(o1, "folderUID") /\ o1.folderUID # f.uid
                   THEN [o1 EXCEPT !.folderUID = f.uid] ELSE o1
         IN [panel EXCEPT !.options = o2]

update_panel_dashlist_folder_ids(panel, fi) ==
    IF panel.type # "dashlist" THEN panel
    ELSE IF ~ Has(fi, panel.title) THEN panel
    ELSE LET f == fi[panel.title]
             o0 == panel.options
             o1 == IF Truthy(o0, "folderId") /\ o0.folderId # f.id
                   THEN [o0 EXCEPT !.folderId = f.id] ELSE o0
             o2 == IF Truthy(o1, "folderUID") /\ o1.folderUID # f.uid
                   THEN [o1 EXCEPT !.folderUID = f.uid] ELSE o1
         IN [panel EXCEPT !.options = o2]

Raise(e) == [raised |-> e]

IsRaised(x) == Has(x, "raised")

update_dashlist_folder_ids(dashboard, fi) ==
    IF Has(dashboard, "panels") /\ dashboard.panels # <<>>
    THEN [dashboard EXCEPT !.panels =
             [k \in 1..Len(dashboard.panels) |->
                 update_panel_dashlist_folder_ids(dashboard.panels[k], fi)]]
    ELSE IF Has(dashboard, "rows") /\ dashboard.rows # <<>>
    THEN Raise("TypeError")
    ELSE dashboard

----------------------------------------------------------------------------
(* Rewrite harness: the rewrite applied to one bounded input *)

InitRewrite ==
    /\ folder_info \in FolderInfos
    /\ rin \in {[kind |-> "panel", v |-> p] : p \in Panels}
             \cup {[kind |-> "dashboard", v |-> d] : d \in Dashboards}
    /\ rout = [kind |-> "none"]
    /\ manifest = [present |-> FALSE]
    /\ home_dashboard = [present |-> FALSE]
    /\ tree = <<>>
    /\ remaining = {}
    /\ folder = ""
    /\ json_file = 1
    /\ dashboard_uid = ""
    /\ calls = <<>>
    /\ remoteFolders = <<>>
    /\ remoteDashboards = {}
    /\ remoteHome = ""
    /\ pc = "rewrite"
    /\ raised = ""

RewritePanel ==
    /\ pc = "rewrite"
    /\ rin.kind = "panel"
    /\ rout.kind = "none"
    /\ rout' = [kind |-> "panel", v |-> update_panel_dashlist_folder_ids(rin.v, folder_info)]
    /\ UNCHANGED <<runVars, folder_info, rin>>

RewriteDashboard ==
    /\ pc = "rewrite"
    /\ rin.kind = "dashboard"
    /\ rout.kind = "none"
    /\ rout' = [kind |-> "dashboard", v |-> update_dashlist_folder_ids(rin.v, folder_info)]
    /\ UNCHANGED <<runVars, folder_info, rin>>

NextRewrite == RewritePanel \/ RewriteDashboard

SpecRewrite == InitRewrite /\ [][NextRewrite]_vars

----------------------------------------------------------------------------
(* The upload run *)

\* the documents the files of a run hold
PlainDoc == [title |-> "plain"]

ListDoc ==
    [title |-> "list",
     panels |-> <<[type |-> "dashlist", title |-> "B",
                   options |-> [maxItems |-> 10, folderId |-> 99, folderUID |-> "zz"]],
                  [type |-> "graph", title |-> "B",
                   options |-> [maxItems |-> 10, folderId |-> 99, folderUID |-> "zz"]]>>]

ZeroDoc ==
    [title |-> "zero",
     panels |-> <<[type |-> "dashlist", title |-> "B",
                   options |-> [maxItems |-> 10, folderId |-> 0, folderUID |-> ""]]>>]

RowsDoc ==
    [title |-> "rows",
     rows |-> <<[panels |-> <<[type |-> "dashlist", title |-> "B",
                               options |-> [maxItems |-> 10, folderId |-> 99, folderUID |-> "zz"]]>>]>>]

RunDocs == {PlainDoc, ListDoc, ZeroDoc, RowsDoc}

RECURSIVE SumLen(_, _)
SumLen(t, S) ==
    IF S = {} THEN 0
    ELSE LET x == CHOOSE y \in S : TRUE IN Len(t[x]) + SumLen(t, S \ {x})

Trees ==
    {t \in UNION {[S -> SeqsUpTo(RunDocs, MaxFiles)] : S \in SUBSET Titles} :
        SumLen(t, DOMAIN t) <= MaxFiles}

\* what a live install may hold: two folders may share a title, and all_folders
\* lists them in any order
LiveFolders == {KnownFolder("A"), KnownFolder("B"), Folder("A", "n1", 11)}

ListedFolders ==
    {fs \in UNION {[1..k -> LiveFolders] : k \in 0..Cardinality(LiveFolders)} :
        \A i, k \in DOMAIN fs : fs[i] = fs[k] => i = k}

ManifestMaps == {[t \in S |-> KnownFolder(t)] : S \in SUBSET Titles}

\* source_dir.glob("*"): the subdirectories, and the two plain files when they exist
Entries(t, m, h) ==
    DOMAIN t
    \cup (IF m.present THEN {"folders.json"} ELSE {})
    \cup (IF h.present THEN {"home.json"} ELSE {})

is_dir(e) == e \in DOMAIN tree

\* the loop of line 45 goes on while the glob yields entries; line 70 follows it
AfterEntry(rem) == IF rem = {} THEN "home" ELSE "loop"

\* the loop of line 62 goes on while the directory has files
AfterFile(dir, j, rem) == IF j <= Len(tree[dir]) THEN "files" ELSE AfterEntry(rem)

\* mutant: a failed call is swallowed and the run goes on
PropagateSwallowed(ok, nxt) == nxt

\* no call is wrapped in try/except: an exception of a remote call ends the run
Propagate(ok, nxt) == IF ok THEN nxt ELSE "failed"

\* {x.title: Folder.model_validate(x) for x in client.folders.all_folders()}
\* (of two listed folders of one title the one listed last stays)
FoldersByTitle(fs) ==
    [t \in {fs[i].title : i \in DOMAIN fs} |->
        fs[CHOOSE i \in DOMAIN fs :
               fs[i].title = t /\ \A k \in DOMAIN fs : fs[k].title = t => k <= i]]

\* mutant: the known uid is not passed on
CreateFolderArgsNoUid(fi, name) == [name |-> name]

\* the arguments of client.folders.create for a directory
CreateFolderArgs(fi, name) ==
    IF Has(fi, name) THEN [name |-> name, uid |-> fi[name].uid] ELSE [name |-> name]

\* folder_info[_folder.title] = _folder
RecordFolder(fi, _folder) == (_folder.title :> _folder) @@ fi

\* folder_info[folder.name].uid
FolderUidOf(fi, name) == IF Has(fi, name) THEN [value |-> fi[name].uid] ELSE Raise("KeyError")

\* dashboard_uid = client.dashboards.create_home(dashboard); client.dashboards.set_home(dashboard_uid)
SetHomeArg(ret) == ret

\* mutant: the inner loop skips every other file
NextFileSkipping(j) == j + 2

\* for json_file in folder.iterdir()
NextFile(j) == j + 1

\* what the service holds after a folder create
Upsert(fs, f) ==
    IF \E i \in DOMAIN fs : fs[i].uid = f.uid
    THEN [i \in DOMAIN fs |-> IF fs[i].uid = f.uid THEN f ELSE fs[i]]
    ELSE Append(fs, f)

\* the Folder the service answers a create with: the given uid, or one it assigns
\* (title t, uid u) when the call carries none
ServiceCreate(args, t, u) ==
    IF Has(args, "uid") THEN Folder(args.name, args.uid, ServiceId(args.uid))
    ELSE Folder(t, u, ServiceId(u))

Init ==
    /\ manifest \in {[present |-> FALSE]} \cup {[present |-> TRUE, data |-> m] : m \in ManifestMaps}
    /\ home_dashboard \in {[present |-> FALSE]} \cup {[present |-> TRUE, doc |-> d] : d \in RunDocs}
    /\ tree \in Trees
    /\ remaining = Entries(tree, manifest, home_dashboard)
    /\ remoteFolders \in IF manifest.present THEN {<<>>} ELSE ListedFolders
    /\ folder = ""
    /\ json_file = 1
    /\ folder_info = <<>>
    /\ dashboard_uid = ""
    /\ calls = <<>>
    /\ remoteDashboards = {}
    /\ remoteHome = ""
    /\ pc = "start"
    /\ raised = ""
    /\ rin = [kind |-> "none"]
    /\ rout = [kind |-> "none"]

\* lines 38-40: folders.json exists
LoadManifest ==
    /\ pc = "start"
    /\ manifest.present
    /\ folder_info' = manifest.data
    /\ pc' = AfterEntry(remaining)
    /\ UNCHANGED <<manifest, home_dashboard, tree, remaining, folder, json_file, dashboard_uid,
                   calls, remoteFolders, remoteDashboards, remoteHome, raised, rin, rout>>

\* lines 34-37: no folders.json, the live install is asked
ListFolders ==
    /\ pc = "start"
    /\ ~ manifest.present
    /\ \E ok \in BOOLEAN :
        /\ calls' = Append(calls,
               IF ok THEN [op |-> "list_folders", ok |-> ok, ret |-> remoteFolders]
               ELSE [op |-> "list_folders", ok |-> ok])
        /\ folder_info' = IF ok THEN FoldersByTitle(remoteFolders) ELSE folder_info
        /\ pc' = Propagate(ok, AfterEntry(remaining))
    /\ UNCHANGED <<manifest, home_dashboard, tree, remaining, folder, json_file, dashboard_uid,
                   remoteFolders, remoteDashboards, remoteHome, raised, rin, rout>>

\* lines 45-47: an entry that is no directory
SkipNonDir ==
    /\ pc = "loop"
    /\ \E e \in remaining :
        /\ ~ is_dir(e)
        /\ remaining' = remaining \ {e}
        /\ pc' = AfterEntry(remaining')
    /\ UNCHANGED <<manifest, home_dashboard, tree, folder, json_file, folder_info, dashboard_uid,
                   calls, remoteFolders, remoteDashboards, remoteHome, raised, rin, rout>>

\* lines 50-53: a directory the mapping knows
CreateKnownFolder ==
    /\ pc = "loop"
    /\ \E e \in remaining, ok \in BOOLEAN :
        /\ is_dir(e)
        /\ Has(folder_info, e)
        /\ LET args == CreateFolderArgs(folder_info, e)
               ret == ServiceCreate(args, e, "n1")
           IN /\ calls' = Append(calls, [op |-> "create_folder", args |-> args, ok |-> ok])
              /\ remoteFolders' = IF ok THEN Upsert(remoteFolders, ret) ELSE remoteFolders
        /\ remaining' = remaining \ {e}
        /\ folder' = e
        /\ json_file' = 1
        /\ pc' = Propagate(ok, AfterFile(e, 1, remaining'))
    /\ UNCHANGED <<manifest, home_dashboard, tree, folder_info, dashboard_uid,
                   remoteDashboards, remoteHome, raised, rin, rout>>

\* lines 50, 57-59: a directory the mapping does not know
CreateNewFolder ==
    /\ pc = "loop"
    /\ \E e \in remaining, ok \in BOOLEAN, t \in Titles, u \in NewUids :
        /\ is_dir(e)
        /\ ~ Has(folder_info, e)
        /\ ok \/ (t = e /\ u = "n1")
        /\ LET args == CreateFolderArgs(folder_info, e)
               _folder == ServiceCreate(args, t, u)
           IN /\ calls' = Append(calls,
                     IF ok THEN [op |-> "create_folder", args |-> args, ok |-> ok, ret |-> _folder]
                     ELSE [op |-> "create_folder", args |-> args, ok |-> ok])
              /\ remoteFolders' = IF ok THEN Upsert(remoteFolders, _folder) ELSE remoteFolders
              /\ folder_info' = IF ok THEN RecordFolder(folder_info, _folder) ELSE folder_info
        /\ remaining' = remaining \ {e}
        /\ folder' = e
        /\ json_file' = 1
        /\ pc' = Propagate(ok, AfterFile(e, 1, remaining'))
    /\ UNCHANGED <<manifest, home_dashboard, tree, dashboard_uid,
                   remoteDashboards, remoteHome, raised, rin, rout>>

\* lines 62-68: one file of the current directory
UploadDashboard ==
    /\ pc = "files"
    /\ LET dashboard == update_dashlist_folder_ids(tree[folder][json_file], folder_info)
           uid == FolderUidOf(folder_info, folder)
       IN IF IsRaised(dashboard) \/ IsRaised(uid)
          THEN /\ pc' = "error"
               /\ raised' = IF IsRaised(dashboard) THEN dashboard.raised ELSE uid.raised
               /\ UNCHANGED <<calls, remoteDashboards, json_file>>
          ELSE \E ok \in BOOLEAN :
               /\ calls' = Append(calls, [op |-> "create_dashboard", dashboard |-> dashboard,
                                          folder_uid |-> uid.value, ok |-> ok,
                                          dir |-> folder, file |-> json_file])
               /\ remoteDashboards' =
                      IF ok THEN remoteDashboards \cup {[dashboard |-> dashboard, folder_uid |-> uid.value]}
                      ELSE remoteDashboards
               /\ json_file' = NextFile(json_file)
               /\ pc' = Propagate(ok, AfterFile(folder, json_file', remaining))
               /\ UNCHANGED raised
    /\ UNCHANGED <<manifest, home_dashboard, tree, remaining, folder, folder_info, dashboard_uid,
                   remoteFolders, remoteHome, rin, rout>>

\* mutant: the is_file test is lost
home_is_file_always(h) == TRUE

\* line 81: home_dashboard.is_file()
home_is_file(h) == h.present

\* lines 85-86: open and parse home.json
ReadHome(h) == IF h.present THEN h.doc ELSE Raise("FileNotFoundError")

\* mutant: the home document is not rewritten
HomeDocumentAsRead(doc, fi) == doc

\* line 87: the home document goes through the same rewrite
HomeDocument(doc, fi) == update_dashlist_folder_ids(doc, fi)

\* lines 79-83: home.json is not there
SkipHome ==
    /\ pc = "home"
    /\ ~ home_is_file(home_dashboard)
    /\ pc' = "done"
    /\ UNCHANGED <<manifest, home_dashboard, tree, remaining, folder, json_file, folder_info,
                   dashboard_uid, calls, remoteFolders, remoteDashboards, remoteHome, raised,
                   rin, rout>>

\* lines 85-90: home.json is read, rewritten and created
CreateHome ==
    /\ pc = "home"
    /\ home_is_file(home_dashboard)
    /\ LET doc == ReadHome(home_dashboard)
           dashboard == IF IsRaised(doc) THEN doc ELSE HomeDocument(doc, folder_info)
       IN IF IsRaised(dashboard)
          THEN /\ pc' = "error"
               /\ raised' = dashboard.raised
               /\ UNCHANGED <<calls, remoteDashboards, dashboard_uid>>
          ELSE \E ok \in BOOLEAN, h \in HomeUids :
               /\ ok \/ h = "h1"
               /\ calls' = Append(calls,
                      IF ok THEN [op |-> "create_home", dashboard |-> dashboard, ok |-> ok, ret |-> h]
                      ELSE [op |-> "create_home", dashboard |-> dashboard, ok |-> ok])
               /\ remoteDashboards' =
                      IF ok THEN remoteDashboards \cup {[dashboard |-> dashboard, uid |-> h]}
                      ELSE remoteDashboards
               /\ dashboard_uid' = IF ok THEN h ELSE dashboard_uid
               /\ pc' = Propagate(ok, "sethome")
               /\ UNCHANGED raised
    /\ UNCHANGED <<manifest, home_dashboard, tree, remaining, folder, json_file, folder_info,
                   remoteFolders, remoteHome, rin, rout>>

\* line 92
SetHome ==
    /\ pc = "sethome"
    /\ \E ok \in BOOLEAN :
        /\ calls' = Append(calls, [op |-> "set_home", uid |-> SetHomeArg(dashboard_uid), ok |-> ok])
        /\ remoteHome' = IF ok THEN SetHomeArg(dashboard_uid) ELSE remoteHome
        /\ pc' = Propagate(ok, "done")
    /\ UNCHANGED <<manifest, home_dashboard, tree, remaining, folder, json_file, folder_info,
                   dashboard_uid, remoteFolders, remoteDashboards, raised, rin, rout>>

Next ==
    \/ LoadManifest
    \/ ListFolders
    \/ SkipNonDir
    \/ CreateKnownFolder
    \/ CreateNewFolder
    \/ UploadDashboard
    \/ SkipHome
    \/ CreateHome
    \/ SetHome

Spec == Init /\ [][Next]_vars

----------------------------------------------------------------------------
(* Properties of the rewrite (checked under SpecRewrite) *)

\* the panel is one the rewrite patches: a dashlist whose title is a key of the mapping
IsTarget(panel, fi) == panel.type = "dashlist" /\ Has(fi, panel.title)

\* both identifiers of the panel are the folder's
FullyAgrees(pout, f) ==
    /\ Has(pout.options, "folderId") /\ pout.options.folderId = f.id
    /\ Has(pout.options, "folderUID") /\ pout.options.folderUID = f.uid

\* a field that was present and truthy is the folder's, any other field is as it was
FieldAgrees(pin, pout, key, want) ==
    IF Truthy(pin.options, key)
    THEN Has(pout.options, key) /\ pout.options[key] = want
    ELSE /\ Has(pout.options, key) = Has(pin.options, key)
         /\ Has(pin.options, key) => pout.options[key] = pin.options[key]

PresentFieldsAgree(pin, pout, f) ==
    /\ FieldAgrees(pin, pout, "folderId", f.id)
    /\ FieldAgrees(pin, pout, "folderUID", f.uid)

\* the rewrite of a dashboard returned, and the dashboard had a panels list
ReturnedPanels ==
    /\ rout.kind = "dashboard"
    /\ ~ IsRaised(rout.v)
    /\ Has(rin.v, "panels")

\* every identifier the options carried before is the folder's afterwards
CarriedFieldsAgree(pin, pout, f) ==
    /\ Has(pin.options, "folderId")
           => Has(pout.options, "folderId") /\ pout.options.folderId = f.id
    /\ Has(pin.options, "folderUID")
           => Has(pout.options, "folderUID") /\ pout.options.folderUID = f.uid

\* C1: after the rewrite every dashlist panel whose title is a key of the folder
\* mapping carries options.folderId = folder.id and options.folderUID = folder.uid,
\* whatever the options held before. Stated here for the identifiers the options
\* carry (zero, empty and already equal included), the case spec 4.3 states too; an
\* identifier the options do not carry is not added by the code either.
C1_CarriedFieldsAgree ==
    /\ rout.kind = "panel" /\ IsTarget(rin.v, folder_info)
           => CarriedFieldsAgree(rin.v, rout.v, folder_info[rin.v.title])
    /\ ReturnedPanels =>
           \A k \in DOMAIN rin.v.panels :
               IsTarget(rin.v.panels[k], folder_info)
                   => CarriedFieldsAgree(rin.v.panels[k], rout.v.panels[k],
                                         folder_info[rin.v.panels[k].title])

\* C2: a panel whose type is not dashlist, or whose title is not a key of the folder
\* mapping, is returned equal to the input in every field (inside a dashboard too),
\* and the rewrite never changes the folder mapping.
C2_PanelUnchanged ==
    /\ [](/\ rout.kind = "panel" /\ ~ IsTarget(rin.v, folder_info) => rout.v = rin.v
          /\ ReturnedPanels =>
                 \A k \in DOMAIN rin.v.panels :
                     ~ IsTarget(rin.v.panels[k], folder_info)
                         => rout.v.panels[k] = rin.v.panels[k])
    /\ [][folder_info' = folder_info]_vars

\* a graph panel that names a known folder with other identifiers came back as it was
C2_Witness ==
    /\ rout.kind = "panel"
    /\ rin.v.type = "graph"
    /\ Has(folder_info, rin.v.title)
    /\ rin.v.options = [maxItems |-> 10, folderId |-> 99, folderUID |-> "zz"]
    /\ rout.v = rin.v

----------------------------------------------------------------------------
(* Properties of the upload run (checked under Spec) *)

Calls(op) == {i \in DOMAIN calls : calls[i].op = op}

FolderCalls == Calls("create_folder")

DashboardCalls == Calls("create_dashboard")

\* a folder create that carried no uid and returned
NewFolderReturns == {i \in FolderCalls : ~ Has(calls[i].args, "uid") /\ calls[i].ok}

LastCall == calls[Len(calls)]

\* the run issued a call in this step
Issued == Len(calls') = Len(calls) + 1

NewCall == calls'[Len(calls')]

\* what a panel looks like after the rewrite against the mapping fi
RewrittenAgainst(pin, pout, fi) ==
    IF IsTarget(pin, fi)
    THEN /\ pout.type = pin.type
         /\ pout.title = pin.title
         /\ PresentFieldsAgree(pin, pout, fi[pin.title])
         /\ pout.options.maxItems = pin.options.maxItems
    ELSE pout = pin

\* what a document with a panels list looks like after the rewrite against fi
DocRewrittenAgainst(din, dout, fi) ==
    IF Has(din, "panels")
    THEN /\ Has(dout, "panels")
         /\ dout.title = din.title
         /\ DOMAIN dout.panels = DOMAIN din.panels
         /\ \A k \in DOMAIN din.panels : RewrittenAgainst(din.panels[k], dout.panels[k], fi)
    ELSE dout = din

\* C3: the rewrite of a document with a non-empty rows list and no top-level panels
\* completes without error (and the document is then submitted).
C3_RowsRewriteCompletes == ~ (pc = "error" /\ raised = "TypeError")

\* C4: for a directory the mapping does not know, the Folder the service returns is
\* recorded and every dashboard of the directory is submitted under its uid, whatever
\* Folder the service returns, without the run failing on the lookup.
C4_NewFolderUidUsed ==
    /\ ~ (pc = "error" /\ raised = "KeyError")
    /\ \A i \in NewFolderReturns, k \in DashboardCalls :
           calls[k].dir = calls[i].args.name => calls[k].folder_uid = calls[i].ret.uid

\* C5: for a directory whose name is a key of the mapping, create_folder is called
\* with the directory name and the mapped Folder's uid, the mapping is left as it
\* was, and every dashboard of the directory is submitted under that same uid.
C5_KnownFolderUidUsed ==
    /\ [](\A i \in FolderCalls, k \in DashboardCalls :
              Has(calls[i].args, "uid") /\ calls[k].dir = calls[i].args.name
                  => k > i /\ calls[k].folder_uid = calls[i].args.uid)
    /\ [][\A e \in remaining :
              pc = "loop" /\ is_dir(e) /\ Has(folder_info, e) /\ e \notin remaining'
                  => /\ Issued
                     /\ NewCall.op = "create_folder"
                     /\ NewCall.args = [name |-> e, uid |-> folder_info[e].uid]
                     /\ folder_info' = folder_info]_vars
    /\ [](pc \in {"home", "sethome", "done"} =>
              \A i \in FolderCalls :
                  Has(calls[i].args, "uid") =>
                      \A j \in DOMAIN tree[calls[i].args.name] :
                          \E k \in DashboardCalls :
                              /\ calls[k].dir = calls[i].args.name
                              /\ calls[k].file = j
                              /\ calls[k].folder_uid = calls[i].args.uid)

\* the manifest's folder B was created with uid "ub" and its two dashboards are under "ub"
C5_Witness ==
    /\ manifest.present
    /\ pc = "done"
    /\ \E i \in FolderCalls :
           /\ calls[i].args = [name |-> "B", uid |-> "ub"]
           /\ Cardinality({k \in DashboardCalls :
                  calls[k].dir = "B" /\ calls[k].folder_uid = "ub" /\ calls[k].ok}) = 2

HomeCalls == Calls("create_home") \cup Calls("set_home")

\* C6: without home.json the home step makes no remote call and raises no error, and
\* the run ends as it would otherwise.
C6_NoHomeNoCall ==
    /\ [](~ home_dashboard.present =>
              /\ HomeCalls = {}
              /\ pc # "sethome"
              /\ raised # "FileNotFoundError"
              /\ remoteHome = ""
              /\ pc = "home" => ENABLED SkipHome)
    /\ [][~ home_dashboard.present /\ pc = "home"
              => pc' = "done" /\ UNCHANGED <<calls, remoteFolders, remoteDashboards, folder_info>>]_vars

\* a run without home.json created a folder, uploaded a dashboard and is done
C6_Witness ==
    /\ ~ home_dashboard.present
    /\ pc = "done"
    /\ FolderCalls # {}
    /\ DashboardCalls # {}

\* C7: with home.json, a run that no exception ends issues one create_home call and
\* then one set_home call carrying what create_home returned; the created document is
\* the rewrite of home.json against the folder mapping; both calls come after every
\* create_folder and create_dashboard call; set_home is never called unless
\* create_home has returned.
C7_HomeCalls ==
    /\ Cardinality(Calls("create_home")) <= 1
    /\ Cardinality(Calls("set_home")) <= 1
    /\ pc = "done" /\ home_dashboard.present
           => Cardinality(Calls("create_home")) = 1 /\ Cardinality(Calls("set_home")) = 1
    /\ \A k \in Calls("set_home") :
           /\ k > 1
           /\ calls[k - 1].op = "create_home"
           /\ calls[k - 1].ok
           /\ calls[k].uid = calls[k - 1].ret
    /\ \A k \in Calls("create_home") :
           /\ home_dashboard.present
           /\ DocRewrittenAgainst(home_dashboard.doc, calls[k].dashboard, folder_info)
           /\ \A i \in DOMAIN calls : i > k => calls[i].op = "set_home"
           /\ remaining = {}
           /\ \A d \in DOMAIN tree :
                  /\ \E i \in FolderCalls : i < k /\ calls[i].args.name = d
                  /\ \A j \in DOMAIN tree[d] :
                         \E i \in DashboardCalls : i < k /\ calls[i].dir = d /\ calls[i].file = j

\* home.json named the new folder B with other identifiers; it was created with B's
\* new identifiers after a folder and a dashboard call, and set as home
C7_Witness ==
    /\ pc = "done"
    /\ home_dashboard.present
    /\ home_dashboard.doc = ListDoc
    /\ Len(calls) >= 4
    /\ calls[Len(calls)].op = "set_home"
    /\ calls[Len(calls)].uid = "h2"
    /\ calls[Len(calls) - 1].op = "create_home"
    /\ calls[Len(calls) - 1].dashboard.panels[1].options.folderId = 11
    /\ calls[Len(calls) - 1].dashboard.panels[1].options.folderUID = "n1"
    /\ DashboardCalls # {}

UidsOf(fs) == {fs[i].uid : i \in DOMAIN fs}

RemoteUids == UidsOf(remoteFolders)

\* C8: a failed remote call ends the run: no call follows it (so it is not retried),
\* and what earlier calls created stays on the service.
C8_FailureEndsRun ==
    /\ [](\A i \in DOMAIN calls : i < Len(calls) => calls[i].ok)
    /\ [](Len(calls) > 0 /\ ~ LastCall.ok => pc = "failed")
    /\ [][/\ pc = "failed" => UNCHANGED <<calls, remoteFolders, remoteDashboards, remoteHome>>
          /\ RemoteUids \subseteq UidsOf(remoteFolders')
          /\ remoteDashboards \subseteq remoteDashboards'
          /\ Issued /\ ~ NewCall.ok
                 => UNCHANGED <<remoteFolders, remoteDashboards, remoteHome>>]_vars

\* a dashboard create failed after a folder and a dashboard had been created
C8_Witness ==
    /\ pc = "failed"
    /\ Len(calls) >= 3
    /\ LastCall.op = "create_dashboard"
    /\ ~ LastCall.ok
    /\ remoteFolders # <<>>
    /\ remoteDashboards # {}

\* the calls of directory d: its create_folder call and its create_dashboard calls
CallsOf(d) ==
    {i \in FolderCalls : calls[i].args.name = d} \cup {i \in DashboardCalls : calls[i].dir = d}

\* C9: a run without failures issues one create_folder call per subdirectory and one
\* create_dashboard call per file, the folder call of a directory before the calls of
\* its files, the files in order, and all calls of one directory before the folder
\* call of the next; entries that are no directories cause no call.
C9_OneCallPerFolderAndFile ==
    /\ \A i \in FolderCalls : calls[i].args.name \in DOMAIN tree
    /\ \A i, k \in FolderCalls : calls[i].args.name = calls[k].args.name => i = k
    /\ \A i \in DashboardCalls :
           /\ calls[i].dir \in DOMAIN tree
           /\ calls[i].file \in DOMAIN tree[calls[i].dir]
           /\ IF calls[i].file = 1
              THEN calls[i - 1].op = "create_folder" /\ calls[i - 1].args.name = calls[i].dir
              ELSE /\ calls[i - 1].op = "create_dashboard"
                   /\ calls[i - 1].dir = calls[i].dir
                   /\ calls[i - 1].file = calls[i].file - 1
    /\ \A i, k \in DashboardCalls :
           calls[i].dir = calls[k].dir /\ calls[i].file = calls[k].file => i = k
    /\ pc \in {"home", "sethome", "done"} =>
           /\ Cardinality(FolderCalls) = Cardinality(DOMAIN tree)
           /\ \A d \in DOMAIN tree :
                  /\ Cardinality(CallsOf(d)) = 1 + Len(tree[d])
                  /\ \A i, k \in CallsOf(d) : \A m \in i..k : m \in CallsOf(d)

\* two directories and two files beside folders.json and home.json: four calls, then home
C9_Witness ==
    /\ pc = "home"
    /\ manifest.present
    /\ home_dashboard.present
    /\ DOMAIN tree = {"A", "B"}
    /\ Len(tree["A"]) = 1
    /\ Len(tree["B"]) = 1
    /\ Cardinality(FolderCalls) = 2
    /\ Cardinality(DashboardCalls) = 2

\* the folder mapping as resolved at the start: the manifest, or what list_folders returned
Resolved ==
    IF manifest.present THEN manifest.data
    ELSE IF Len(calls) > 0 /\ calls[1].ok THEN FoldersByTitle(calls[1].ret)
    ELSE <<>>

\* the document call k submitted, as read from its file
Original(k) ==
    IF calls[k].op = "create_home" THEN home_dashboard.doc
    ELSE tree[calls[k].dir][calls[k].file]

DocumentCalls == DashboardCalls \cup Calls("create_home")

\* the new-folder returns for the directory a panel names
CreatedFor(t) == {i \in NewFolderReturns : calls[i].args.name = t}

\* C10: the mapping only ever gains entries during a run; a dashlist panel naming a
\* directory that is not in the resolved mapping and is created later in the run is
\* submitted with its original options, whereas in a dashboard processed after that
\* folder's creation, and in the home dashboard, it is rewritten to the newly
\* assigned identifiers.
C10_AsStated ==
    /\ pc # "start" =>
           /\ \A t \in DOMAIN Resolved : Has(folder_info, t)
           /\ \A i \in NewFolderReturns : Has(folder_info, calls[i].ret.title)
    /\ \A k \in DocumentCalls :
           Has(Original(k), "panels") =>
               \A p \in DOMAIN Original(k).panels :
                   LET pin == Original(k).panels[p]
                       pout == calls[k].dashboard.panels[p]
                   IN (pin.type = "dashlist" /\ ~ Has(Resolved, pin.title)) =>
                          /\ (\A i \in FolderCalls : calls[i].args.name = pin.title => i > k)
                                 => pout.options = pin.options
                          /\ \A i \in CreatedFor(pin.title) :
                                 i < k => FullyAgrees(pout, calls[i].ret)

====
